---- MODULE Spec2Model ----
(***************************************************************************)
(* Population lifecycle of the simple-creature simulator.                  *)
(*                                                                         *)
(* SimulationController (spawn trickle, main loop, leaderboard), MainWorld *)
(* (all-time distance maps, histogram) and Muscle (activation state        *)
(* machine).  The matter-js engine is a black box: Engine.update moves the *)
(* non-static bodies nondeterministically.  A creature's bodies are        *)
(* represented by the largest body x, the only thing the controller and    *)
(* the world ever read from them.                                          *)
(*                                                                         *)
(* Scheduling: the world's update loop and the controller's main loop are  *)
(* requestAnimationFrame callbacks registered in that order, so a frame is *)
(* world update, then controller tick.  The trickle is a setInterval       *)
(* callback and runs between frames.  The clock is read at the granularity *)
(* of the trickle period.                                                  *)
(***************************************************************************)
EXTENDS Integers, Sequences, FiniteSets, TLC

\* ---------------------------------------------------------------- constants
generationSize == 50
lifetime == 15000
TrickleMs == 250
TopN == 10
BinWidth == 100
centerX == -100
DefaultPeriod == 1000
\* extensionFactor ?? 1.5, in thousandths
DefaultExtension == 1500
EpochSize == 50
NominalDelta == 16

\* ------------------------------------------------------------------- bounds
\* Trickle invocations in a run.
MaxSpawn == 73
\* Engine steps in a run that displace a creature.
MaxMoves == 2
\* Updates applied to the muscle under test.
MaxMuscleTicks == 12

\* Places a displaced creature's leading body can be found at.
Positions == {50, 150}
\* Creatures the engine displaces (the rest stay where they were spawned).
MoverIds == {10, 11, 40}
\* Muscle configurations and update deltas under test.
\* restLength in px, extensionFactor in thousandths.
MuscleConfigs ==
    { [activationType |-> "periodic", period |-> 100, restLength |-> 40,
       extensionFactor |-> 1500],
      [activationType |-> "periodic", period |-> 48, restLength |-> 40,
       extensionFactor |-> 1250],
      [activationType |-> "periodic", period |-> 32, restLength |-> 20,
       extensionFactor |-> 1000],
      [activationType |-> "periodic", restLength |-> 40],
      [activationType |-> "onGroundContact", period |-> 100, restLength |-> 40,
       extensionFactor |-> 1250],
      [activationType |-> "onGroundContact", restLength |-> 20] }
\* cfg.groundY and the y an endpoint of the muscle can be at.
GroundLevels == {400}
Heights == {399, 400, 401}
Deltas == {16, 50, 250}
MinBodies == 4
BodySpread == 8
\* The pairs of body indices a cross-link draw picks from.
CrossPicks == {<<0, 0>>, <<0, 2>>, <<3, 1>>}
\* Values of Math.random(), in thousandths.
Randoms == {0, 500, 999}
MaxClones == 2
MaxFreezeCalls == 3
\* Bodies and initial muscles passed to ensureMinimumConnections on its own.
MaxRepairBodies == 4

MaxInputMuscles == 2

\* Animation frames one creature's muscle is followed through.
MaxFrames == 4
\* Values of Math.min(now - lastUpdate, 50) in the world's update loop.
WorldDeltas == {16, 50}
FreezeBodies == 2
Velocities == {-2, 0}
\* Spawn counts at which a caller may stop the simulation.
CleanupPoints == {1, 12}
\* Values of the generationSize field the trickle is also run at.
Capacities == {2, 12}

VARIABLES
    creatures,            \* SimulationController.creatures: live list
    deadCreatures,        \* SimulationController.deadCreatures: frozen ids
    evolutionCount,       \* SimulationController.evolutionCount
    totalCreatures,       \* SimulationController.totalCreatures
    top3HighScores,       \* SimulationController.top3HighScores
    allCreatures,         \* SimulationController.allCreatures (ids)
    worldCreatures,       \* BasePhysicsWorld.creatures: ids, insertion order
    creatureMaxDistances, \* BasePhysicsWorld.creatureMaxDistances
    distanceBins,         \* BasePhysicsWorld.distanceBins
    top3MaxDistances,     \* MainWorld.top3MaxDistances
    posX,                 \* engine: largest body x of each creature in it
    isStatic,             \* engine: creatures whose bodies are static
    now,                  \* Date.now()
    phase,                \* next animation-frame callback: "world" | "tick"
    spawned,              \* creatures constructed so far
    moves,                \* displacing engine steps so far
    lastOp,               \* the callback that ran last
    culled,               \* ids removed by the last trickle
    snapLive,             \* live list at the start of the last trickle
    snapTop10,            \* ids of the top10 computed by the last trickle
    everTop10,            \* ids some trickle has had in its top10
    seenX,                \* live id -> the body x beyond 0 its update calls saw
    tickLog,              \* what the loop run did, when it was the last step
    capacity,             \* SimulationController.generationSize (the field)
    cleanedUp,            \* cleanup() has been called
    fz,                   \* freezeCreature under test: one creature's bodies
    gen,                  \* createRandomCreature under way: position and locals
    mk,                   \* one muscle's config as created, then as cloned
    fr,                   \* one creature's muscle across animation frames
    muscle,               \* the muscle under test: config, timer, active
    mDelta,               \* the delta its updates are driven with
    mTicks,               \* updates applied to it
    mToggles,             \* times its active flag flipped
    mInput                \* endpoint y's and groundY of its last update

ctlVars == <<creatures, deadCreatures, evolutionCount, totalCreatures,
             top3HighScores, allCreatures>>
worldVars == <<worldCreatures, creatureMaxDistances, distanceBins,
               top3MaxDistances>>
engineVars == <<posX, isStatic>>
envVars == <<now, phase, spawned, moves>>
histVars == <<lastOp, culled, snapLive, snapTop10, everTop10, seenX, tickLog>>
cfgVars == <<capacity, cleanedUp>>
muscleVars == <<muscle, mDelta, mTicks, mToggles, mInput>>
partVars == <<fz, gen, mk, fr>>
vars == <<ctlVars, worldVars, engineVars, envVars, histVars, cfgVars, muscleVars,
          partVars>>

\* ------------------------------------------------------------------ helpers
Max2(a, b) == IF a >= b THEN a ELSE b

SetMin(S) == CHOOSE x \in S : \A y \in S : x <= y

IdsOf(s) == {s[i].id : i \in 1..Len(s)}

NoTick == [frozen |-> {}, updated |-> {}, delta |-> 0]

NoInput == [ya |-> 0, yb |-> 0, groundY |-> 0]

Range(s) == {s[i] : i \in 1..Len(s)}

\* Array.prototype.sort with comparator (a, b) => b.key - a.key: stable,
\* descending.  Returns the permutation of 1..Len(keys): element i lands
\* after every element with a larger key and every earlier element with an
\* equal key.
SortRank(keys, i) ==
    1 + Cardinality({j \in 1..Len(keys) :
                        \/ keys[j] > keys[i]
                        \/ (keys[j] = keys[i] /\ j < i)})

\* The function f over 1..n as a tuple.
Tup(f) == SubSeq(f, 1, Len(f))

InvertRank(rank) ==
    Tup([r \in 1..Len(rank) |-> CHOOSE i \in 1..Len(rank) : rank[i] = r])

SortDescIdx(keys) == InvertRank(Tup([i \in 1..Len(keys) |-> SortRank(keys, i)]))

\* Array.prototype.slice(0, k)
Slice0(s, k) == SubSeq(s, 1, IF Len(s) < k THEN Len(s) ELSE k)

\* Map<number, number>, kept as a sequence of entries in insertion order.
MapHas(m, id) == \E i \in 1..Len(m) : m[i].id = id

MapGetOr0(m, id) ==
    IF MapHas(m, id)
    THEN LET i == CHOOSE j \in 1..Len(m) : m[j].id = id IN m[i].dist
    ELSE 0

\* ------------------------------------------------------------------- Muscle
PeriodOf(config) ==
    IF "period" \in DOMAIN config THEN config.period ELSE DefaultPeriod

ExtensionOf(config) ==
    IF "extensionFactor" \in DOMAIN config THEN config.extensionFactor
    ELSE DefaultExtension

GroundedMut(ya, yb, groundY) == ya > groundY \/ yb > groundY

\* A.position.y >= groundY || B.position.y >= groundY
Grounded(ya, yb, groundY) == ya >= groundY \/ yb >= groundY

TargetLengthMut(m) == (m.config.restLength * ExtensionOf(m.config)) \div 1000

\* this.active ? restLength * (extensionFactor ?? 1.5) : restLength
TargetLength(m) ==
    IF m.active THEN (m.config.restLength * ExtensionOf(m.config)) \div 1000
    ELSE m.config.restLength

\* this.constraint.length = target
Commanded(m) == [m EXCEPT !.length = TargetLength(m)]

\* new Muscle(world, a, b, config): Constraint.create({length: restLength})
NewMuscle(cfg) ==
    [config |-> cfg, timer |-> 0, active |-> FALSE, length |-> cfg.restLength]

MuscleUpdateMut(m, delta, grounded) ==
    Commanded(
        IF m.config.activationType = "periodic"
        THEN IF m.timer + delta > PeriodOf(m.config)
             THEN [m EXCEPT !.active = ~m.active, !.timer = 0]
             ELSE [m EXCEPT !.timer = m.timer + delta]
        ELSE IF grounded THEN [m EXCEPT !.active = ~m.active] ELSE m)

\* Muscle.update(delta, groundY); grounded: an endpoint has y >= groundY.
MuscleUpdate(m, delta, grounded) ==
    Commanded(
        IF m.config.activationType = "periodic"
        THEN IF m.timer + delta >= PeriodOf(m.config)
             THEN [m EXCEPT !.active = ~m.active, !.timer = 0]
             ELSE [m EXCEPT !.timer = m.timer + delta]
        ELSE IF grounded THEN [m EXCEPT !.active = ~m.active] ELSE m)

\* ----------------------------------------------------------------- Creature
\* new Creature(bodies, muscles) as trickleAddCreature leaves it.
NewCreatureMut(id, t) == [id |-> id, bornAt |-> 0, maxX |-> 0]

\* new Creature(bodies, muscles); creature.bornAt = Date.now()
NewCreature(id, t) == [id |-> id, bornAt |-> t, maxX |-> 0]

CreatureUpdateMut(c, x) == [c EXCEPT !.maxX = x]

\* Creature.update: maxX = max(maxX, ...body x)
CreatureUpdate(c, x) == [c EXCEPT !.maxX = Max2(c.maxX, x)]

\* -------------------------------------------------------------------- World
\* const prev = map.get(id) || 0; if (furthest > prev) map.set(id, furthest):
\* the value the entry holds afterwards, 0 standing for no entry.
Furthest(prev, furthest) == IF furthest > prev THEN furthest ELSE prev

\* That statement run for each of ids in turn.  ids are distinct, so the loop
\* raises the entries it finds in place and appends, in iteration order, the
\* ids it sets for the first time.
RaiseEach(map, ids, px) ==
    LET inWorld == {ids[k] : k \in 1..Len(ids)}
        raised == [i \in 1..Len(map) |->
                     IF map[i].id \in inWorld
                     THEN [id |-> map[i].id, dist |-> Furthest(map[i].dist, px[map[i].id])]
                     ELSE map[i]]
        fresh == SelectSeq(ids, LAMBDA id : ~MapHas(map, id) /\ Furthest(0, px[id]) # 0)
    IN raised \o [k \in 1..Len(fresh) |->
                     [id |-> fresh[k], dist |-> Furthest(0, px[fresh[k]])]]

\* BasePhysicsWorld.update: all-time max distances of the creatures in the world
RecordFurthest(map, ids, px) == RaiseEach(map, ids, px)

RecordTop3MaxMut(map, ids, px) ==
    RaiseEach(SelectSeq(map, LAMBDA e : \E k \in 1..Len(ids) : ids[k] = e.id), ids, px)

\* MainWorld.update: the persistent top map
RecordTop3Max(map, ids, px) == RaiseEach(map, ids, px)

\* One iteration of the histogram rebuild: grow the array, count the entry.
BinAdd(bins, dist) ==
    LET binIndex == dist \div BinWidth
        grown == IF Len(bins) <= binIndex
                 THEN bins \o [i \in 1..(binIndex + 1 - Len(bins)) |-> 0]
                 ELSE bins
    IN IF binIndex < 0 THEN bins
       ELSE [grown EXCEPT ![binIndex + 1] = grown[binIndex + 1] + 1]

RECURSIVE RebuildBins(_, _)
RebuildBins(bins, map) ==
    IF map = <<>> THEN bins
    ELSE RebuildBins(BinAdd(bins, Head(map).dist), Tail(map))

\* BasePhysicsWorld.removeCreature(id) for the ids (none or one) the world
\* holds: the map after the final sample of the removed creature.
RemoveCreatureMax(map, ids, px) == RaiseEach(map, ids, px)

\* --------------------------------------------------------------- Controller
\* [...creatures].sort((a, b) => b.maxX - a.maxX)
Permute(s, idx) == [r \in 1..Len(s) |-> s[idx[r]]]

RECURSIVE DescByMaxX(_, _)

\* The creatures at maxX = m, in list order, then those at the values below.
DescFrom(cs, m, vals) ==
    SelectSeq(cs, LAMBDA c : c.maxX = m) \o DescByMaxX(cs, vals \ {m})

\* Stable descending order over the maxX values vals: greatest value first,
\* equal creatures in list order.
DescByMaxX(cs, vals) ==
    IF vals = {} THEN <<>>
    ELSE DescFrom(cs, CHOOSE m \in vals : \A v \in vals : v <= m, vals)

SortedByMaxXMut(cs) == cs

\* [...cs].sort((a, b) => b.maxX - a.maxX): a sorted copy
SortedByMaxX(cs) == DescByMaxX(cs, {cs[i].maxX : i \in 1..Len(cs)})

\* getTopCreatures(count)
GetTopCreatures(cs, count) == Slice0(SortedByMaxX(cs), count)

Top10Mut(cs) == Slice0(SortedByMaxX(cs), 3)

\* [...this.creatures].sort((a, b) => b.maxX - a.maxX).slice(0, 10)
Top10(cs) == Slice0(SortedByMaxX(cs), TopN)

\* creatures.filter(c => !top10.includes(c))
NonTop10Mut(cs, top10) == cs

Excluding(cs, ids) == SelectSeq(cs, LAMBDA c : c.id \notin ids)

NonTop10(cs, top10) == Excluding(cs, IdsOf(top10))

\* nonTop10.reduce((a, b) => (a.bornAt < b.bornAt ? a : b)): the accumulator
\* is replaced unless it is strictly older, so the result is the last of the
\* elements with the least bornAt.
LastWith(s, least) ==
    s[CHOOSE i \in 1..Len(s) :
          /\ s[i].bornAt = least
          /\ \A j \in (i + 1)..Len(s) : s[j].bornAt # least]

OldestMut(s) ==
    s[CHOOSE i \in 1..Len(s) : \A j \in 1..Len(s) : s[j].bornAt <= s[i].bornAt]

Oldest(s) == LastWith(s, SetMin({s[i].bornAt : i \in 1..Len(s)}))

\* The creature trickleAddCreature culls, as a set of at most one id.
OldestIn(nonTop10) == IF Len(nonTop10) > 0 THEN {Oldest(nonTop10).id} ELSE {}

CullChoiceMut(cs, top10) ==
    IF Len(cs) > capacity THEN OldestIn(NonTop10(cs, top10)) ELSE {}

CullChoice(cs, top10) ==
    IF Len(cs) >= capacity THEN OldestIn(NonTop10(cs, top10)) ELSE {}

DeadCreaturesDeleteMut(dead, cull) == dead

\* this.deadCreatures.delete(oldest.id)
DeadCreaturesDelete(dead, cull) == dead \ cull

HeldMut(cull, wc) == {}

\* removeCreature: creatureData = this.creatures.get(creatureId);
\* if (creatureData) { ... }: the ids the world has something to remove for.
Held(cull, wc) == cull \cap Range(wc)

\* this.totalCreatures++; if (this.totalCreatures % 50 === 0) { ... }
EpochEnds(total) == (total + 1) % EpochSize = 0

TotalAfterMut(total) == total + 1

TotalAfter(total) == IF EpochEnds(total) THEN 0 ELSE total + 1

EvolutionAfter(evolution, total) ==
    IF EpochEnds(total) THEN evolution + 1 ELSE evolution

\* updateTop3HighScores
MaxXOfId(cs, id) ==
    IF id \in IdsOf(cs)
    THEN LET i == CHOOSE j \in 1..Len(cs) : cs[j].id = id IN cs[i].maxX
    ELSE 0

SortedByDist(m) == Permute(m, SortDescIdx([i \in 1..Len(m) |-> m[i].dist]))

Top3HighScores(all, cs) ==
    Slice0(SortedByDist(Tup([i \in 1..Len(all) |->
                                [id |-> all[i], dist |-> MaxXOfId(cs, all[i])]])), 3)

\* getTop3HighScores
GetTop3HighScores ==
    [i \in 1..Len(top3HighScores) |->
        [id |-> top3HighScores[i].id, distance |-> top3HighScores[i].dist, rank |-> i]]

\* creatures.filter(c => ![...creatures].sort(...).slice(0, 3).includes(c))
NonTop3(cs) == Excluding(cs, IdsOf(Slice0(SortedByMaxX(cs), 3)))

TimeUntilMut(nonTop3, t) ==
    IF Len(nonTop3) = 0 THEN lifetime
    ELSE SetMin({nonTop3[i].bornAt + lifetime - t : i \in 1..Len(nonTop3)})

\* if (nonTop3.length === 0) return this.lifetime;
\* return Math.max(0, Math.min(...nonTop3.map(c => c.bornAt + lifetime - now)))
TimeUntil(nonTop3, t) ==
    IF Len(nonTop3) = 0 THEN lifetime
    ELSE Max2(0, SetMin({nonTop3[i].bornAt + lifetime - t : i \in 1..Len(nonTop3)}))

\* getTimeUntilNextEvolution, called at time t
GetTimeUntilNextEvolution(cs, t) == TimeUntil(NonTop3(cs), t)

\* The persistent top 3 of MainWorld.update
PersistentTop3(map) == Slice0(SortedByDist(map), 3)

\* ------------------------------------------------------------------ actions
InitMuscleDefault ==
    /\ muscle = NewMuscle([activationType |-> "periodic", period |-> 100,
                            restLength |-> 40, extensionFactor |-> 1500])
    /\ mDelta = 16
    /\ mTicks = 0
    /\ mToggles = 0
    /\ mInput = NoInput

InitSim ==
    /\ creatures = <<>>
    /\ deadCreatures = {}
    /\ evolutionCount = 0
    /\ totalCreatures = 0
    /\ top3HighScores = <<>>
    /\ allCreatures = <<>>
    /\ worldCreatures = <<>>
    /\ creatureMaxDistances = <<>>
    /\ distanceBins = <<>>
    /\ top3MaxDistances = <<>>
    /\ posX = <<>>
    /\ isStatic = {}
    /\ now = 0
    /\ phase = "world"
    /\ spawned = 0
    /\ moves = 0
    /\ lastOp = "init"
    /\ culled = {}
    /\ snapLive = <<>>
    /\ snapTop10 = <<>>
    /\ everTop10 = {}
    /\ seenX = <<>>
    /\ tickLog = NoTick
    /\ cleanedUp = FALSE

\* Nothing under test besides the simulation.
NoFreeze ==
    [id |-> 0, bodies |-> <<>>, dead |-> {}, live |-> <<>>,
     calls |-> 0, before |-> <<>>, first |-> <<>>]

NoGen ==
    [pc |-> "idle", count |-> 0, muscles |-> <<>>, crossConnections |-> 0,
     i |-> 0, connectionMap |-> <<>>, body |-> 0]

NoMuscle == [pc |-> "idle", kind |-> "none", config |-> <<>>, clones |-> 0]

NoFrame ==
    [build |-> "none", muscle |-> <<>>, expired |-> FALSE, frozen |-> FALSE,
     phase |-> "idle", calls |-> 0, deltas |-> {}, frames |-> 0]

InitPartsDefault == fz = NoFreeze /\ gen = NoGen /\ mk = NoMuscle /\ fr = NoFrame

Init ==
    /\ InitSim
    /\ capacity = generationSize
    /\ InitMuscleDefault
    /\ InitPartsDefault

\* SimulationController.trickleAddCreature
trickleAddCreature ==
    /\ phase = "world"
    /\ spawned < MaxSpawn
    /\ \E top10 \in {Top10(creatures)} :
       \E cull \in {CullChoice(creatures, top10)} :
       \E t \in {now + TrickleMs}, id \in {spawned + 1} :
          /\ now' = t
          /\ creatures' = Append(Excluding(creatures, cull), NewCreature(id, t))
          /\ deadCreatures' = DeadCreaturesDelete(deadCreatures, cull)
          /\ \E held \in {Held(cull, worldCreatures)} :
                /\ creatureMaxDistances' =
                      RemoveCreatureMax(creatureMaxDistances,
                                        SelectSeq(worldCreatures, LAMBDA w : w \in held),
                                        posX)
                /\ worldCreatures' =
                      Append(SelectSeq(worldCreatures, LAMBDA w : w \notin held), id)
                /\ posX' = [c \in (DOMAIN posX \ held) \cup {id} |->
                              IF c = id THEN centerX ELSE posX[c]]
                /\ isStatic' = isStatic \ held
          /\ spawned' = id
          /\ totalCreatures' = TotalAfter(totalCreatures)
          /\ evolutionCount' = EvolutionAfter(evolutionCount, totalCreatures)
          /\ lastOp' = "trickle"
          /\ culled' = cull
          /\ snapLive' = creatures
          /\ snapTop10' = [i \in 1..Len(top10) |-> top10[i].id]
          /\ everTop10' = everTop10 \cup IdsOf(top10)
          /\ seenX' = [c \in (DOMAIN seenX \ cull) \cup {id} |->
                          IF c = id THEN {} ELSE seenX[c]]
    /\ UNCHANGED <<top3HighScores, allCreatures, distanceBins, top3MaxDistances,
                   phase, moves, cfgVars, muscleVars, partVars>>
    /\ tickLog' = NoTick

\* Engine.update: the positions the engine can leave the bodies at.
EngineUpdate ==
    {posX} \cup
    IF moves < MaxMoves
    THEN {[posX EXCEPT ![c] = p] :
            c \in (DOMAIN posX \cap MoverIds) \ isStatic,
            p \in Positions}
    ELSE {}

\* MainWorld.update (BasePhysicsWorld.update, then the persistent top map)
WorldUpdate ==
    /\ phase = "world"
    /\ \E px \in EngineUpdate :
        /\ posX' = px
        /\ moves' = IF px = posX THEN moves ELSE moves + 1
        /\ creatureMaxDistances' =
              RecordFurthest(creatureMaxDistances, worldCreatures, px)
        /\ distanceBins' = RebuildBins(<<>>, creatureMaxDistances')
        /\ top3MaxDistances' = RecordTop3Max(top3MaxDistances, worldCreatures, px)
    /\ phase' = "tick"
    /\ lastOp' = "world"
    /\ UNCHANGED <<ctlVars, worldCreatures, isStatic, now, spawned,
                   culled, snapLive, snapTop10, everTop10, seenX, cfgVars,
                   muscleVars, partVars>>
    /\ tickLog' = NoTick

\* now - (creature.bornAt || 0) > this.lifetime
ExpiredMut(c, t) == t - c.bornAt >= lifetime

Expired(c, t) == t - c.bornAt > lifetime

\* The ids the loop hands to freezeCreature at time t.
ExpiredIds(cs, t) == {cs[i].id : i \in {j \in 1..Len(cs) : Expired(cs[j], t)}}

LoopCreaturesMut(cs, t, px) == SelectSeq(cs, LAMBDA c : ~Expired(c, t))

\* The live list after the forEach of one loop run: expired creatures are
\* frozen and left as they are, the others updated.
LoopCreatures(cs, t, px) ==
    [i \in 1..Len(cs) |->
        IF Expired(cs[i], t) THEN cs[i] ELSE CreatureUpdate(cs[i], px[cs[i].id])]

\* SimulationController.startMainLoop: one run of loop
MainLoop ==
    /\ phase = "tick"
    /\ \E frozen \in {ExpiredIds(creatures, now)} :
          /\ creatures' = LoopCreatures(creatures, now, posX)
          /\ deadCreatures' = deadCreatures \cup frozen
          /\ isStatic' = isStatic \cup frozen
          /\ tickLog' = [frozen |-> frozen, updated |-> IdsOf(creatures) \ frozen,
                         delta |-> NominalDelta]
          /\ seenX' = [c \in DOMAIN seenX |->
                          IF c \in frozen THEN seenX[c]
                          ELSE seenX[c] \cup {x \in {posX[c]} : x > 0}]
    /\ top3HighScores' = Top3HighScores(allCreatures, creatures')
    /\ phase' = "world"
    /\ lastOp' = "tick"
    /\ UNCHANGED <<evolutionCount, totalCreatures, allCreatures, worldVars, posX,
                   now, spawned, moves, culled, snapLive, snapTop10, everTop10,
                   cfgVars, muscleVars, partVars>>

\* SimulationController.cleanup -> BasePhysicsWorld.cleanup: the renderer is
\* stopped and the world's creature map cleared.  A caller may stop the
\* simulation when CleanupPoints allows.
cleanup ==
    /\ ~cleanedUp
    /\ phase = "world"
    /\ spawned \in CleanupPoints
    /\ worldCreatures' = <<>>
    /\ cleanedUp' = TRUE
    /\ lastOp' = "cleanup"
    /\ UNCHANGED <<ctlVars, creatureMaxDistances, distanceBins, top3MaxDistances,
                   engineVars, envVars, culled, snapLive, snapTop10, everTop10, seenX,
                   capacity, muscleVars, partVars>>
    /\ tickLog' = NoTick

Next == trickleAddCreature \/ WorldUpdate \/ MainLoop

Spec == Init /\ [][Next]_vars

\* The simulation with a caller that stops it.
NextCleanup == Next \/ cleanup

SpecCleanup == Init /\ [][NextCleanup]_vars

\* The simulation run at another capacity.
InitCap ==
    /\ InitSim
    /\ capacity \in Capacities
    /\ InitMuscleDefault
    /\ InitPartsDefault

SpecCap == InitCap /\ [][Next]_vars

\* ------------------------------------------------------- muscle under test
InitMuscle ==
    /\ InitSim
    /\ capacity = generationSize
    /\ \E cfg \in MuscleConfigs : muscle = NewMuscle(cfg)
    /\ mDelta \in Deltas
    /\ mTicks = 0
    /\ mToggles = 0
    /\ mInput = NoInput
    /\ InitPartsDefault

MuscleTick ==
    /\ mTicks < MaxMuscleTicks
    /\ \E ya \in Heights, yb \in Heights, groundY \in GroundLevels :
          /\ muscle' = MuscleUpdate(muscle, mDelta, Grounded(ya, yb, groundY))
          /\ mToggles' = IF muscle'.active # muscle.active THEN mToggles + 1
                         ELSE mToggles
          /\ mInput' = [ya |-> ya, yb |-> yb, groundY |-> groundY]
    /\ mTicks' = mTicks + 1
    /\ UNCHANGED <<ctlVars, worldVars, engineVars, envVars, histVars, cfgVars, mDelta, partVars>>

NextMuscle == MuscleTick

SpecMuscle == InitMuscle /\ [][NextMuscle]_vars

\* ------------------------------------------------- freezeCreature under test
\* The fields of a matter-js body freezeCreature writes.
BodyStates ==
    [isStatic : BOOLEAN, vx : Velocities, vy : Velocities,
     angularVelocity : Velocities]

\* b.body.isStatic = true; b.body.velocity.x = 0; b.body.velocity.y = 0;
\* Body.setAngularVelocity(b.body, 0)
FreezeBodyMut(b) == [b EXCEPT !.isStatic = TRUE, !.vx = 0, !.angularVelocity = 0]

FreezeBody(b) == [b EXCEPT !.isStatic = TRUE, !.vx = 0, !.vy = 0,
                           !.angularVelocity = 0]

\* this.deadCreatures.add(creature.id); creature.bodies.forEach(...)
freezeCreature(st) ==
    [st EXCEPT !.dead = st.dead \cup {st.id},
               !.bodies = [i \in 1..Len(st.bodies) |-> FreezeBody(st.bodies[i])]]

\* What a freezeCreature call can change or must leave alone.
FrozenPart(st) == [bodies |-> st.bodies, dead |-> st.dead, live |-> st.live]

\* A live list of two creatures; the first one's bodies are under test.
InitFreeze ==
    /\ InitSim
    /\ capacity = generationSize
    /\ InitMuscleDefault
    /\ gen = NoGen /\ mk = NoMuscle /\ fr = NoFrame
    /\ \E bs \in [1..FreezeBodies -> BodyStates], dead \in SUBSET {1, 2},
          m \in Positions :
          fz = [id |-> 1, bodies |-> bs, dead |-> dead,
                live |-> <<[id |-> 1, bornAt |-> 0, maxX |-> m],
                           [id |-> 2, bornAt |-> TrickleMs, maxX |-> 0]>>,
                calls |-> 0, before |-> <<>>, first |-> <<>>]

FreezeCall ==
    /\ fz.calls < MaxFreezeCalls
    /\ \E st \in {freezeCreature(fz)} :
          fz' = [st EXCEPT !.calls = fz.calls + 1,
                           !.before = <<FrozenPart(fz)>>,
                           !.first = IF fz.calls = 0 THEN <<FrozenPart(st)>>
                                     ELSE fz.first]
    /\ UNCHANGED <<ctlVars, worldVars, engineVars, envVars, histVars, cfgVars,
                   muscleVars, gen, mk, fr>>

\* Engine.update integrates the bodies that are not static.
FreezeEngineUpdate ==
    /\ \E i \in 1..Len(fz.bodies), v \in Velocities :
          /\ ~fz.bodies[i].isStatic
          /\ fz' = [fz EXCEPT !.bodies[i].vy = v]
    /\ UNCHANGED <<ctlVars, worldVars, engineVars, envVars, histVars, cfgVars,
                   muscleVars, gen, mk, fr>>

NextFreeze == FreezeCall \/ FreezeEngineUpdate

SpecFreeze == InitFreeze /\ [][NextFreeze]_vars

\* ------------------------------------------------------- creature generator
\* Bodies are numbered 0..count-1 as in the bodies array; a muscle is the
\* pair of body indices it joins and the step that created it.
Degree(ms, k) ==
    Cardinality({j \in 1..Len(ms) : ms[j].a = k})
        + Cardinality({j \in 1..Len(ms) : ms[j].b = k})

\* connectionMap after the muscles.forEach of ensureMinimumConnections
ConnectionMap(n, ms) == [k \in 0..(n - 1) |-> Degree(ms, k)]

RingMusclesMut(n) ==
    [j \in 1..(n - 1) |-> [a |-> j - 1, b |-> j, kind |-> "ring"]]

RingSkipMut(n) ==
    [j \in 1..n |-> [a |-> j - 1, b |-> (j + 1) % n, kind |-> "ring"]]

\* for (i = 0; i < count; i++) muscles.push(bodies[i] -- bodies[(i + 1) % count])
RingMuscles(n) ==
    [j \in 1..n |-> [a |-> j - 1, b |-> j % n, kind |-> "ring"]]

\* bodies.filter(target => target !== body && connectionMap.get(target) < 2)
PotentialTargets(n, conn, body) ==
    {t \in 0..(n - 1) : t # body /\ conn[t] < 2}

GenUnchanged ==
    UNCHANGED <<ctlVars, worldVars, engineVars, envVars, histVars, cfgVars,
                muscleVars, fz, mk, fr>>

InitGen ==
    /\ InitSim
    /\ capacity = generationSize
    /\ InitMuscleDefault
    /\ fz = NoFreeze /\ mk = NoMuscle /\ fr = NoFrame
    /\ gen = [NoGen EXCEPT !.pc = "count"]

\* const count = 4 + Math.floor(Math.random() * 8)
GenCount ==
    /\ gen.pc = "count"
    /\ \E r \in 0..(BodySpread - 1) :
          gen' = [gen EXCEPT !.pc = "ring", !.count = MinBodies + r]
    /\ GenUnchanged

\* The ring loop, then crossConnections is drawn.
GenRing ==
    /\ gen.pc = "ring"
    /\ \E r \in {0, 1} :
          gen' = [gen EXCEPT !.pc = "cross",
                             !.muscles = RingMuscles(gen.count),
                             !.crossConnections = (gen.count \div 2) + r,
                             !.i = 0]
    /\ GenUnchanged

\* One pass of the cross-link loop: a and b are drawn, the muscle is pushed
\* if (a !== b).
GenCross ==
    /\ gen.pc = "cross"
    /\ gen.i < gen.crossConnections
    /\ \E p \in CrossPicks :
          /\ p[1] < gen.count /\ p[2] < gen.count
          /\ gen' = [gen EXCEPT
                       !.muscles = IF p[1] # p[2]
                                   THEN Append(gen.muscles,
                                               [a |-> p[1], b |-> p[2], kind |-> "cross"])
                                   ELSE gen.muscles,
                       !.i = gen.i + 1]
    /\ GenUnchanged

\* ensureMinimumConnections is entered: the connection map is built.
GenEnsure ==
    /\ gen.pc = "cross"
    /\ gen.i = gen.crossConnections
    /\ gen' = [gen EXCEPT !.pc = "repair",
                          !.connectionMap = ConnectionMap(gen.count, gen.muscles),
                          !.body = 0]
    /\ GenUnchanged

\* One pass of while (connectionMap.get(body) < 2) for the body the forEach
\* is at: a muscle to a random potential target, or on to the next body.
GenRepair ==
    /\ gen.pc = "repair"
    /\ gen.body < gen.count
    /\ \E targets \in {PotentialTargets(gen.count, gen.connectionMap, gen.body)} :
          IF gen.connectionMap[gen.body] < 2 /\ targets # {}
          THEN \E target \in targets :
                 gen' = [gen EXCEPT
                           !.muscles = Append(gen.muscles,
                                              [a |-> gen.body, b |-> target,
                                               kind |-> "repair"]),
                           !.connectionMap[gen.body] = @ + 1,
                           !.connectionMap[target] = @ + 1]
          ELSE gen' = [gen EXCEPT !.body = gen.body + 1]
    /\ GenUnchanged

\* return new Creature(bodies, muscles)
GenReturn ==
    /\ gen.pc = "repair"
    /\ gen.body = gen.count
    /\ gen' = [gen EXCEPT !.pc = "done"]
    /\ GenUnchanged

NextGen == GenCount \/ GenRing \/ GenCross \/ GenEnsure \/ GenRepair \/ GenReturn

SpecGen == InitGen /\ [][NextGen]_vars

\* ensureMinimumConnections(bodies, muscles) on its own: the caller passes
\* any bodies array and any muscle list over those bodies.
InputMuscles(n) ==
    {[a |-> x, b |-> y, kind |-> "input"] : x \in 0..(n - 1), y \in 0..(n - 1)}

InputLists(n) ==
    UNION {[1..l -> {m \in InputMuscles(n) : m.a < m.b}] : l \in 0..MaxInputMuscles}

InitRepair ==
    /\ InitSim
    /\ capacity = generationSize
    /\ InitMuscleDefault
    /\ fz = NoFreeze /\ mk = NoMuscle /\ fr = NoFrame
    /\ \E n \in 1..MaxRepairBodies : \E ms \in InputLists(n) :
          gen = [NoGen EXCEPT !.pc = "cross", !.count = n, !.muscles = ms]

NextRepair == GenEnsure \/ GenRepair \/ GenReturn

SpecRepair == InitRepair /\ [][NextRepair]_vars

\* ------------------------------------------------------------ muscle config
\* Factors, stiffness and extensionFactor are in thousandths, periods in ms.
\* r * k for r = Math.random() in thousandths
Scale(r, k) == (r * k) \div 1000

\* Math.random() < 0.5 ? 'periodic' : 'onGroundContact'
ActivationType(r) == IF r < 500 THEN "periodic" ELSE "onGroundContact"

\* The config of a ring muscle
RingConfig(r1, r2, r3, r4) ==
    [stiffness |-> 300 + Scale(r1, 700), activationType |-> ActivationType(r2),
     period |-> 250 + Scale(r3, 1200), extensionFactor |-> 1000 + Scale(r4, 700)]

\* The config of a cross-link
CrossConfig(r1, r2, r3, r4) ==
    [stiffness |-> 300 + Scale(r1, 700), activationType |-> ActivationType(r2),
     period |-> 1000 + Scale(r3, 1500), extensionFactor |-> 1100 + Scale(r4, 700)]

\* The config of a muscle ensureMinimumConnections adds
RepairConfig(r1, r2, r3, r4) ==
    [stiffness |-> 300 + Scale(r1, 300), activationType |-> ActivationType(r2),
     period |-> 700 + Scale(r3, 1200), extensionFactor |-> 1000 + Scale(r4, 400)]

\* Creature.clone: { ...config, period: period * (0.95 + random * 0.1),
\*                   extensionFactor: extensionFactor * (0.98 + random * 0.04) }
CloneConfig(cfg, r1, r2) ==
    [cfg EXCEPT !.period = (@ * (950 + Scale(r1, 100))) \div 1000,
                !.extensionFactor = (@ * (980 + Scale(r2, 40))) \div 1000]

ConfigUnchanged ==
    UNCHANGED <<ctlVars, worldVars, engineVars, envVars, histVars, cfgVars,
                muscleVars, fz, gen, fr>>

InitConfig ==
    /\ InitSim
    /\ capacity = generationSize
    /\ InitMuscleDefault
    /\ fz = NoFreeze /\ gen = NoGen /\ fr = NoFrame
    /\ mk = [NoMuscle EXCEPT !.pc = "new"]

ConfigRing ==
    /\ mk.pc = "new"
    /\ \E r1 \in Randoms, r2 \in Randoms, r3 \in Randoms, r4 \in Randoms :
          mk' = [pc |-> "made", kind |-> "ring",
                 config |-> RingConfig(r1, r2, r3, r4), clones |-> 0]
    /\ ConfigUnchanged

ConfigCross ==
    /\ mk.pc = "new"
    /\ \E r1 \in Randoms, r2 \in Randoms, r3 \in Randoms, r4 \in Randoms :
          mk' = [pc |-> "made", kind |-> "cross",
                 config |-> CrossConfig(r1, r2, r3, r4), clones |-> 0]
    /\ ConfigUnchanged

ConfigRepair ==
    /\ mk.pc = "new"
    /\ \E r1 \in Randoms, r2 \in Randoms, r3 \in Randoms, r4 \in Randoms :
          mk' = [pc |-> "made", kind |-> "repair",
                 config |-> RepairConfig(r1, r2, r3, r4), clones |-> 0]
    /\ ConfigUnchanged

\* The muscle of a clone of the creature.
ConfigClone ==
    /\ mk.pc = "made"
    /\ mk.clones < MaxClones
    /\ \E r1 \in Randoms, r2 \in Randoms :
          mk' = [mk EXCEPT !.config = CloneConfig(mk.config, r1, r2),
                           !.clones = mk.clones + 1]
    /\ ConfigUnchanged

NextConfig == ConfigRing \/ ConfigCross \/ ConfigRepair \/ ConfigClone

SpecConfig == InitConfig /\ [][NextConfig]_vars

\* ------------------------------------------- a creature's muscle, per frame
\* World.ts holds two versions of BasePhysicsWorld; which of them the build
\* takes is open, so both are followed.  A frame is the world's update loop,
\* then the controller's main loop.
FrameUnchanged ==
    UNCHANGED <<ctlVars, worldVars, engineVars, envVars, histVars, cfgVars,
                muscleVars, fz, gen, mk>>

InitFrame ==
    /\ InitSim
    /\ capacity = generationSize
    /\ InitMuscleDefault
    /\ fz = NoFreeze /\ gen = NoGen /\ mk = NoMuscle
    /\ \E build \in {"first", "second"}, cfg \in MuscleConfigs :
          fr = [NoFrame EXCEPT
                  !.build = build,
                  !.muscle = NewMuscle(cfg),
                  !.phase = "world"]

\* BasePhysicsWorld.update, first version: the engine and the distance maps.
FrameWorldFirst ==
    /\ fr.phase = "world"
    /\ fr.build = "first"
    /\ fr.frames < MaxFrames
    /\ fr' = [fr EXCEPT !.phase = "tick", !.calls = 0, !.deltas = {}]
    /\ FrameUnchanged

\* BasePhysicsWorld.update, second version: muscle.update(delta, groundY) for
\* every creature of the world's map.
FrameWorldSecond ==
    /\ fr.phase = "world"
    /\ fr.build = "second"
    /\ fr.frames < MaxFrames
    /\ \E d \in WorldDeltas, grounded \in BOOLEAN :
          fr' = [fr EXCEPT !.phase = "tick",
                           !.muscle = MuscleUpdate(fr.muscle, d, grounded),
                           !.calls = 1,
                           !.deltas = {d}]
    /\ FrameUnchanged

\* The main loop's pass over this creature: frozen once its lifetime is over
\* (and from then on), else creature.update(16, groundY).
FrameTick ==
    /\ fr.phase = "tick"
    /\ \E expired \in (IF fr.expired THEN {TRUE} ELSE BOOLEAN),
          grounded \in BOOLEAN :
          IF expired
          THEN fr' = [fr EXCEPT !.phase = "world", !.expired = TRUE,
                                !.frozen = TRUE, !.frames = fr.frames + 1]
          ELSE fr' = [fr EXCEPT
                        !.phase = "world",
                        !.muscle = MuscleUpdate(fr.muscle, NominalDelta, grounded),
                        !.calls = fr.calls + 1,
                        !.deltas = fr.deltas \cup {NominalDelta},
                        !.frames = fr.frames + 1]
    /\ FrameUnchanged

NextFrame == FrameWorldFirst \/ FrameWorldSecond \/ FrameTick

SpecFrame == InitFrame /\ [][NextFrame]_vars

\* ------------------------------------------------------------------- claims
\* The record a live-list snapshot holds for id.
Member(cs, id) == cs[CHOOSE i \in 1..Len(cs) : cs[i].id = id]

\* Ids of cs outside the id set top.
Outside(cs, top) == IdsOf(cs) \ top

\* The trickle that ran last found the live list at capacity and removed something.
CullHappened == lastOp = "trickle" /\ culled # {}

\* C1: the number of live creatures never exceeds generationSize (50), in
\* particular after a trickle step has completed.
C1_LiveWithinCapacity == Len(creatures) <= generationSize

C1_Witness == CullHappened /\ Len(creatures) = generationSize

\* C2: the creature a trickle culls is not in the top-10 snapshot that trickle
\* computed: the snapshot holds the 10 best by maxX, at least 10 live
\* creatures are at least as far as the culled one, and every snapshot member
\* is still live after the trickle.
C2_CulledOutsideTop10 ==
    lastOp = "trickle" =>
        /\ culled \cap Range(snapTop10) = {}
        /\ Range(snapTop10) \subseteq IdsOf(creatures)
        /\ Len(snapTop10) = (IF Len(snapLive) < TopN THEN Len(snapLive) ELSE TopN)
        /\ \A a \in Range(snapTop10) : \A b \in Outside(snapLive, Range(snapTop10)) :
              Member(snapLive, a).maxX >= Member(snapLive, b).maxX
        /\ \A c \in culled :
              Cardinality({d \in IdsOf(snapLive) \ {c} :
                              Member(snapLive, d).maxX >= Member(snapLive, c).maxX}) >= TopN

\* A cull that spared a younger creature because its maxX put it in the top 10.
C2_Witness ==
    /\ CullHappened
    /\ \E c \in culled : \E a \in Range(snapTop10) :
          /\ Member(snapLive, a).bornAt > Member(snapLive, c).bornAt
          /\ Member(snapLive, a).maxX > Member(snapLive, c).maxX

\* C3: a trickle that finds the live count at capacity and a live creature
\* outside its top-10 snapshot culls exactly one creature, the one with the
\* least bornAt among those outside the snapshot, and removes it from the live
\* list, the world's creature map and the engine; nobody else leaves.
C3_CullsOldestNonTop10 ==
    (/\ lastOp = "trickle"
     /\ Len(snapLive) >= generationSize
     /\ Outside(snapLive, Range(snapTop10)) # {}) =>
        /\ Cardinality(culled) = 1
        /\ \A c \in culled :
              /\ c \in Outside(snapLive, Range(snapTop10))
              /\ \A d \in Outside(snapLive, Range(snapTop10)) :
                    Member(snapLive, c).bornAt <= Member(snapLive, d).bornAt
              /\ c \notin IdsOf(creatures)
              /\ c \notin Range(worldCreatures)
              /\ c \notin DOMAIN posX
        /\ IdsOf(creatures) = (IdsOf(snapLive) \ culled) \cup {spawned}

\* The culled creature is not the oldest live one, and an older creature with
\* a smaller id was culled before it or kept because of its distance.
C3_Witness ==
    /\ CullHappened
    /\ Len(snapLive) = generationSize
    /\ \E c \in culled : \E a \in Range(snapTop10) :
          /\ Member(snapLive, a).maxX > 0
          /\ Member(snapLive, a).bornAt > Member(snapLive, c).bornAt

\* C4 (as claimed): the creature a trickle removes is the oldest live creature
\* outside the top 3 by maxX.
Top3Ids(cs) == {SortedByMaxX(cs)[r].id : r \in 1..(IF Len(cs) < 3 THEN Len(cs) ELSE 3)}

C4_CullsOldestNonTop3 ==
    CullHappened =>
        \A c \in culled :
            /\ c \in Outside(snapLive, Top3Ids(snapLive))
            /\ \A d \in Outside(snapLive, Top3Ids(snapLive)) :
                  Member(snapLive, c).bornAt <= Member(snapLive, d).bornAt

\* C5: a creature's maxX never decreases while it is in the live list.
C5_MaxXNonDecreasing ==
    [][\A i \in 1..Len(creatures) : \A j \in 1..Len(creatures') :
          creatures[i].id = creatures'[j].id =>
              creatures'[j].maxX >= creatures[i].maxX]_vars

\* A creature that fell back behind its best position and was updated there.
C5_Witness ==
    /\ lastOp = "tick"
    /\ \E i \in 1..Len(creatures) :
          /\ creatures[i].id \notin isStatic
          /\ creatures[i].maxX > 0
          /\ posX[creatures[i].id] < creatures[i].maxX

\* C6 (as claimed): once creatures have been spawned and the leaderboard
\* refreshed, getTop3HighScores lists the three greatest maxX of all creatures
\* spawned, in descending order, with ranks 1, 2, 3.  Stated for the states
\* in which no creature has been culled yet, where those are the live ones.
IsTop3Of(scores, sorted) ==
    /\ Len(scores) = 3
    /\ \A r \in 1..3 : scores[r].distance = sorted[r].maxX /\ scores[r].rank = r

C6_Top3AfterRefresh ==
    (lastOp = "tick" /\ spawned >= 3 /\ Len(creatures) = spawned) =>
        IsTop3Of(GetTop3HighScores, SortedByMaxX(creatures))

\* C7 (as claimed): after a refresh, every id that has ever been live has an
\* entry in the persistent best-distance map (the controller's allCreatures
\* or the world's distance maps), and a live creature's entry holds at least
\* its maxX.
HasEntry(id) ==
    \/ id \in Range(allCreatures)
    \/ MapHas(creatureMaxDistances, id)
    \/ MapHas(top3MaxDistances, id)

C7_EveryIdHasEntry ==
    lastOp = "tick" =>
        /\ \A id \in 1..spawned : HasEntry(id)
        /\ \A id \in IdsOf(creatures) :
              Max2(MapGetOr0(creatureMaxDistances, id), MapGetOr0(top3MaxDistances, id))
                  >= Member(creatures, id).maxX

\* C8: the sum of the distances of the persistent top 3 never decreases, for
\* the world's persistent top map and for the controller's top3HighScores,
\* whatever is culled.
SumDist(s) ==
    (IF Len(s) >= 1 THEN s[1].dist ELSE 0)
    + (IF Len(s) >= 2 THEN s[2].dist ELSE 0)
    + (IF Len(s) >= 3 THEN s[3].dist ELSE 0)

Top3Sum(map) == SumDist(PersistentTop3(map))

C8_Top3SumNonDecreasing ==
    [][/\ Top3Sum(top3MaxDistances') >= Top3Sum(top3MaxDistances)
       /\ SumDist(top3HighScores') >= SumDist(top3HighScores)]_vars

\* A member of the persistent top 3 has been culled and the world has been
\* updated since.
InTop3(top3, id) == \E r \in 1..Len(top3) : top3[r].id = id /\ top3[r].dist > 0

C8_Witness ==
    /\ lastOp = "world"
    /\ \E id \in culled : InTop3(PersistentTop3(top3MaxDistances), id)

\* C9 (as claimed): after a world update, bin k of the histogram counts the
\* creatures, live or removed, whose best-known maxX lies in
\* [100k, 100k + 100); a creature that never passed x = 0 has best-known
\* maxX 0 and is counted in bin 0.
BestKnown(id) == MapGetOr0(creatureMaxDistances, id)

BinCount(k) == IF k + 1 <= Len(distanceBins) THEN distanceBins[k + 1] ELSE 0

C9_HistogramCountsEveryCreature ==
    lastOp = "world" =>
        \A k \in 0..(Len(distanceBins) + 1) :
            BinCount(k) = Cardinality({id \in 1..spawned : BestKnown(id) \div BinWidth = k})

\* C10: a periodic muscle that starts inactive with timer 0 and is updated
\* with a constant delta d toggles exactly every ceil(period / d) updates and
\* restarts its timer from 0 then; after every update 0 <= timer < period.
\* With period 100 and d = 16 it is inactive up to update 6 and has toggled
\* exactly once at updates 7 to 10.
CeilDiv(a, b) == (a + b - 1) \div b

PeriodicAfter(m, d, k, toggles, n) ==
    /\ toggles = k \div n
    /\ m.timer = (k % n) * d
    /\ m.active = (toggles % 2 = 1)
    /\ 0 <= m.timer /\ m.timer < PeriodOf(m.config)

C10_PeriodicToggles ==
    muscle.config.activationType = "periodic" =>
        /\ PeriodicAfter(muscle, mDelta, mTicks, mToggles,
                         CeilDiv(PeriodOf(muscle.config), mDelta))
        /\ (PeriodOf(muscle.config) = 100 /\ mDelta = 16) =>
              /\ mTicks <= 6 => (~muscle.active /\ mToggles = 0)
              /\ mTicks \in 7..10 => (muscle.active /\ mToggles = 1)

C10_Witness ==
    /\ muscle.config.activationType = "periodic"
    /\ PeriodOf(muscle.config) = 100
    /\ mDelta = 16
    /\ mTicks = 10
    /\ muscle.active
    /\ mToggles = 1
    /\ muscle.timer = 48

\* C11: freezeCreature leaves every body of the creature static with linear
\* velocity (0,0) and angular velocity 0 and the creature's id in
\* deadCreatures; a second and any later application leaves bodies,
\* deadCreatures and the live list exactly as the first one left them; and no
\* application changes the live list's membership or any maxX.
C11_FreezeIdempotent ==
    fz.calls >= 1 =>
        /\ \A i \in 1..Len(fz.bodies) :
              /\ fz.bodies[i].isStatic
              /\ fz.bodies[i].vx = 0 /\ fz.bodies[i].vy = 0
              /\ fz.bodies[i].angularVelocity = 0
        /\ Len(fz.bodies) = Len(fz.before[1].bodies)
        /\ fz.dead = fz.before[1].dead \cup {fz.id}
        /\ fz.live = fz.before[1].live
        /\ FrozenPart(fz) = fz.first[1]

\* Frozen twice, the second time with the id already recorded.
C11_Witness ==
    /\ fz.calls = 2
    /\ fz.id \in fz.before[1].dead
    /\ fz.live[1].maxX > 0

\* C13: at any capacity, a trickle that finds every live creature in its
\* top-10 snapshot (which is when it finds at most 10 live) culls nothing,
\* also when the live count is at or above the capacity; a cull only happens
\* from more than 10 live creatures; and at capacity 2 the live count has
\* passed the capacity from the second trickle on.
C13_NoCullWhileAllInTop10 ==
    lastOp = "trickle" =>
        /\ (IdsOf(snapLive) \subseteq Range(snapTop10)) <=> (Len(snapLive) <= 10)
        /\ Len(snapLive) <= 10 =>
              /\ culled = {}
              /\ Len(creatures) = Len(snapLive) + 1
        /\ culled # {} => Len(snapLive) > 10 /\ Len(snapLive) >= capacity
        /\ (capacity = 2 /\ Len(snapLive) >= 2) => Len(creatures) > capacity

\* Capacity 2: the trickle found 10 live creatures, all in its snapshot,
\* culled none and left 11.
C13_Witness ==
    /\ capacity = 2
    /\ lastOp = "trickle"
    /\ Len(snapLive) = 10
    /\ culled = {}
    /\ Len(creatures) = 11

\* C14: once cleanup() has completed neither timer fires again: no later
\* step spawns or culls a creature, updates the world or runs the main loop.
C14_NothingRunsAfterCleanup ==
    [][cleanedUp => UNCHANGED <<ctlVars, worldVars, engineVars, now, spawned>>]_vars

\* C15: after k trickles evolutionCount is floor(k / 50) and totalCreatures
\* is k mod 50 (so it stays within 0..49), k being the number of trickles
\* run so far; as k changes in a trickle only, no other operation changes
\* either counter.
C15_CountersFollowTrickles ==
    /\ evolutionCount * 50 + totalCreatures = spawned
    /\ totalCreatures \in 0..49

\* The 50th trickle has just closed the first epoch.
C15_Witness ==
    /\ lastOp = "trickle"
    /\ spawned = 50
    /\ evolutionCount = 1
    /\ totalCreatures = 0

\* C16: a main-loop tick leaves the live list's members and their order as
\* they were and takes nothing out of the physics world or the world's
\* creature map; a creature leaves the live list only in a trickle.
C16_OnlyTrickleRemoves ==
    [][/\ lastOp' = "tick" =>
            /\ Len(creatures') = Len(creatures)
            /\ \A i \in 1..Len(creatures) :
                  /\ creatures'[i].id = creatures[i].id
                  /\ creatures'[i].bornAt = creatures[i].bornAt
            /\ DOMAIN posX' = DOMAIN posX
            /\ worldCreatures' = worldCreatures
       /\ ~(IdsOf(creatures) \subseteq IdsOf(creatures')) => lastOp' = "trickle"
      ]_vars

\* A tick over a full live list that froze some creatures and updated others.
C16_Witness ==
    /\ lastOp = "tick"
    /\ Len(creatures) = generationSize
    /\ tickLog.frozen # {}
    /\ tickLog.updated # {}

\* Bodies of the generated creature that are an endpoint of fewer than 2 muscles.
LowDegree == {k \in 0..(gen.count - 1) : Degree(gen.muscles, k) < 2}

\* C12: every creature createRandomCreature returns (4..11 bodies, any
\* cross-links, any repair partners) has every body as an endpoint of at
\* least 2 muscles; the documented exception of one body left below degree 2
\* never arises.
C12_EveryBodyDegreeTwo ==
    gen.pc = "done" =>
        /\ gen.count \in 4..11
        /\ LowDegree = {}

\* An 11-body creature returned with every one of its 6 cross-link draws taken.
C12_Witness ==
    /\ gen.pc = "done"
    /\ gen.count = 11
    /\ Len(gen.muscles) = 17

\* C17: every muscle the program can create, by the ring, cross-link and
\* repair steps of the generator or by Creature.clone of such a muscle, has
\* extensionFactor >= 1 (1000 thousandths).
C17_ExtensionFactorAtLeastOne ==
    mk.pc = "made" => mk.config.extensionFactor >= 1000

\* Positions in cs of the creatures that at least 3 others are sorted ahead of.
Behind3(cs) ==
    {i \in 1..Len(cs) :
        Cardinality({j \in 1..Len(cs) :
                        \/ cs[j].maxX > cs[i].maxX
                        \/ cs[j].maxX = cs[i].maxX /\ j < i}) >= 3}

\* What is left of c's lifetime at time t, 0 once it is over.
Remaining(c, t) == IF c.bornAt + 15000 > t THEN c.bornAt + 15000 - t ELSE 0

\* C18: getTimeUntilNextEvolution returns the lifetime (15000) when no live
\* creature is outside the top 3 by maxX, and otherwise the least time any
\* creature outside the top 3 has left of its lifetime, 0 when one of them
\* has none left; the result is always within 0..15000.
C18_TimeUntilNextEvolution ==
    \E r \in {GetTimeUntilNextEvolution(creatures, now)} :
    \E out \in {Behind3(creatures)} :
        /\ r \in 0..15000
        /\ out = {} <=> Len(creatures) <= 3
        /\ out = {} => r = 15000
        /\ out # {} =>
              /\ \A i \in out : r <= Remaining(creatures[i], now)
              /\ \E i \in out : r = Remaining(creatures[i], now)

\* A query that answers 0 because a creature outside the top 3 has outlived
\* its lifetime.
C18_Witness ==
    /\ Len(creatures) = generationSize
    /\ GetTimeUntilNextEvolution(creatures, now) = 0
    /\ \E i \in Behind3(creatures) : now - creatures[i].bornAt > 15000

\* C19: every trickle appends exactly one new creature, born at the time of
\* the trickle and registered with the physics world, to what it kept of the
\* live list; it culls at most one creature, and only from a live list of at
\* least 50; so the live count afterwards is the count before plus one, or
\* the same count when it culled.
C19_TrickleAddsOne ==
    lastOp = "trickle" =>
        /\ Len(creatures) >= 1
        /\ creatures[Len(creatures)] = [id |-> spawned, bornAt |-> now, maxX |-> 0]
        /\ spawned \notin IdsOf(snapLive)
        /\ SubSeq(creatures, 1, Len(creatures) - 1)
              = SelectSeq(snapLive, LAMBDA c : c.id \notin culled)
        /\ spawned \in Range(worldCreatures)
        /\ spawned \in DOMAIN posX
        /\ culled \subseteq IdsOf(snapLive)
        /\ Cardinality(culled) <= 1
        /\ culled # {} => Len(snapLive) >= 50
        /\ Len(creatures) = Len(snapLive) + 1 - Cardinality(culled)

\* A trickle that culled one creature and added one, the count staying put.
C19_Witness ==
    /\ CullHappened
    /\ Len(creatures) = Len(snapLive)
    /\ creatures[Len(creatures)].bornAt = now

C21_OneMuscleUpdatePerFrame ==
    (fr.phase = "world" /\ fr.frames >= 1) =>
        IF fr.frozen THEN fr.calls = 0
        ELSE fr.calls = 1 /\ fr.deltas = {16}

\* C22: with cleanup() never called, whichever callback runs next finds the
\* ids of the live list equal to the ids of the world's creature map, every
\* live creature's bodies in the engine, and no body of a culled creature
\* left in it.
C22_CallbacksSeeConsistentState ==
    /\ IdsOf(creatures) = Range(worldCreatures)
    /\ Len(worldCreatures) = Len(creatures)
    /\ DOMAIN posX = IdsOf(creatures)
    /\ isStatic \subseteq IdsOf(creatures)
    /\ culled \cap IdsOf(creatures) = {}

\* A trickle has culled a creature that a tick had frozen, and spawned another.
C22_Witness ==
    /\ CullHappened
    /\ \E c \in culled : now - Member(snapLive, c).bornAt > lifetime
    /\ Len(creatures) = generationSize

\* C23: an update of an onGroundContact muscle flips active when at least
\* one endpoint has y >= groundY and leaves it as it was when both have
\* y < groundY, so under lasting contact it flips on every update; its timer
\* is never changed.
C23_GroundContactFlips ==
    [][muscle.config.activationType = "onGroundContact" =>
          /\ muscle'.timer = muscle.timer
          /\ muscle'.timer = 0
          /\ (mInput'.ya < mInput'.groundY /\ mInput'.yb < mInput'.groundY)
                => muscle'.active = muscle.active
          /\ ~(mInput'.ya < mInput'.groundY /\ mInput'.yb < mInput'.groundY)
                => muscle'.active = ~muscle.active
      ]_vars

\* An onGroundContact muscle that flipped on an update with one endpoint
\* exactly at groundY, after updates that found no contact.
C23_Witness ==
    /\ muscle.config.activationType = "onGroundContact"
    /\ mToggles >= 2
    /\ mTicks > mToggles
    /\ mInput.ya = mInput.groundY
    /\ mInput.yb < mInput.groundY

\* C24: after every Muscle.update, of either activation type, the
\* constraint's length is restLength when the muscle is then inactive and
\* restLength * extensionFactor (1.5 when the config has none) when it is
\* then active; update leaves the config as it was.
C24_CommandedLength ==
    [][/\ muscle'.config = muscle.config
       /\ ~muscle'.active => muscle'.length = muscle.config.restLength
       /\ muscle'.active =>
             muscle'.length * 1000 =
                muscle.config.restLength *
                   (IF "extensionFactor" \in DOMAIN muscle.config
                    THEN muscle.config.extensionFactor ELSE 1500)
      ]_vars

\* A muscle that has gone from extended (40 * 1.25 = 50) back to its rest
\* length.
C24_Witness ==
    /\ ExtensionOf(muscle.config) = 1250
    /\ mToggles = 2
    /\ ~muscle.active
    /\ muscle.length = 40

\* How many creatures of cs come before the one at position i when cs is put
\* in descending order of maxX, equal ones in list order.
AheadOf(cs, i) ==
    Cardinality({j \in 1..Len(cs) :
                    \/ cs[j].maxX > cs[i].maxX
                    \/ cs[j].maxX = cs[i].maxX /\ j < i})

\* ids lists, best first, the first Len(ids) creatures of cs in that order.
IsStableTop(ids, cs) ==
    \A r \in 1..Len(ids) :
        \E i \in 1..Len(cs) : cs[i].id = ids[r] /\ AheadOf(cs, i) = r - 1

\* C25: the top-10 snapshot of a trickle is the first min(10, live count)
\* creatures of the live list in descending order of maxX, ties in list
\* order; getTopCreatures returns such a prefix too; and the live list keeps
\* its order: after the trickle it is the old list without the culled
\* creature, followed by the new one.
C25_Top10StableSorted ==
    lastOp = "trickle" =>
        /\ Len(snapTop10) = (IF Len(snapLive) < 10 THEN Len(snapLive) ELSE 10)
        /\ IsStableTop(snapTop10, snapLive)
        /\ \E top \in {GetTopCreatures(creatures, 3)} :
              /\ Len(top) = (IF Len(creatures) < 3 THEN Len(creatures) ELSE 3)
              /\ IsStableTop([r \in 1..Len(top) |-> top[r].id], creatures)
        /\ SubSeq(creatures, 1, Len(creatures) - 1)
              = SelectSeq(snapLive, LAMBDA c : c.id \notin culled)

\* A snapshot of a full live list led by a late-spawned creature, the ties
\* behind it in spawn order.
C25_Witness ==
    /\ lastOp = "trickle"
    /\ Len(snapLive) = generationSize
    /\ snapTop10[1] = 40
    /\ snapTop10[2] = 1
    /\ snapTop10[10] = 9

\* The bodies joined to a body of S by a muscle of ms, and S.
Joined(ms, S) ==
    S \cup {ms[j].b : j \in {k \in 1..Len(ms) : ms[k].a \in S}}
      \cup {ms[j].a : j \in {k \in 1..Len(ms) : ms[k].b \in S}}

RECURSIVE ReachFrom(_, _)

Grow(ms, S, T) == IF T = S THEN S ELSE ReachFrom(ms, T)

\* The bodies reachable from S through muscles of ms.
ReachFrom(ms, S) == Grow(ms, S, Joined(ms, S))

\* C26: every creature createRandomCreature returns has 4 to 11 bodies, a
\* muscle from each body i to body (i + 1) mod n, and a connected muscle
\* graph: every body is reachable from body 0.
C26_RingAndConnected ==
    gen.pc = "done" =>
        /\ gen.count >= 4 /\ gen.count <= 11
        /\ \A k \in 0..(gen.count - 1) :
              \E j \in 1..Len(gen.muscles) :
                 gen.muscles[j].a = k /\ gen.muscles[j].b = (k + 1) % gen.count
        /\ ReachFrom(gen.muscles, {0}) = 0..(gen.count - 1)

\* The smallest creature, returned with three cross-links on top of its ring.
C26_Witness ==
    /\ gen.pc = "done"
    /\ gen.count = 4
    /\ Len(gen.muscles) = 7

\* The bodies with fewer than two incident muscles.
UnderConnected(n, ms) == {k \in 0..(n - 1) : Degree(ms, k) < 2}

\* C27: when ensureMinimumConnections returns, at most one body has fewer
\* than two incident muscles, and that body has exactly one.
C27_AtMostOneBodyAtDegreeOne ==
    gen.pc = "done" =>
        /\ Cardinality(UnderConnected(gen.count, gen.muscles)) <= 1
        /\ \A k \in UnderConnected(gen.count, gen.muscles) :
              Degree(gen.muscles, k) = 1

\* C28: a creature that no trickle since its spawn has had in its top-10
\* snapshot is gone from the live list once the 50th trickle after the one
\* that spawned it has run (ids are spawn numbers, one per trickle).
C28_CulledWithinFiftyTrickles ==
    \A i \in 1..Len(creatures) :
        creatures[i].id \notin everTop10 => spawned < creatures[i].id + 50

\* A creature that was never in a top-10 snapshot has just been culled, after
\* the creature spawned 50 trickles before it has already gone.
C28_Witness ==
    /\ lastOp = "trickle"
    /\ culled # {}
    /\ culled \cap everTop10 = {}
    /\ spawned > 50
    /\ spawned - 50 \notin IdsOf(creatures)
    /\ spawned - 50 \notin everTop10

\* C29: frozen is absorbing until the cull.  Across every step a creature in
\* deadCreatures that stays in the live list stays in deadCreatures, its
\* bodies stay static and where they were, its maxX is unchanged, and a loop
\* run freezes it again without calling its update; and deadCreatures holds
\* only ids of live creatures.
C29_FrozenUntilCulled ==
    [][/\ deadCreatures' \subseteq IdsOf(creatures')
       /\ \A i \in 1..Len(creatures) : \A j \in 1..Len(creatures') :
             (creatures[i].id \in deadCreatures /\ creatures'[j].id = creatures[i].id) =>
                /\ creatures'[j].id \in deadCreatures'
                /\ creatures'[j].id \in isStatic'
                /\ posX'[creatures'[j].id] = posX[creatures[i].id]
                /\ creatures'[j].maxX = creatures[i].maxX
                /\ lastOp' = "tick" =>
                      /\ creatures'[j].id \in tickLog'.frozen
                      /\ creatures'[j].id \notin tickLog'.updated]_vars

\* A loop run has frozen again a creature that an earlier run froze, and a
\* frozen creature has been culled before.
C29_Witness ==
    /\ lastOp = "tick"
    /\ \E i \in 1..Len(creatures) :
          /\ creatures[i].id \in tickLog.frozen
          /\ now - creatures[i].bornAt > lifetime + TrickleMs
    /\ \E id \in 1..10 : id \notin IdsOf(creatures)

\* The greatest of 0 and the positions in S.
MaxOrZero(S) == CHOOSE m \in S \cup {0} : \A x \in S \cup {0} : x <= m

\* The ids the map holds.
MapIds(map) == {map[i].id : i \in 1..Len(map)}

\* C30: a live creature's maxX is at least 0 and is the greatest of 0 and the
\* body positions its update calls have seen (seenX keeps those beyond 0,
\* the others cannot be the greatest); a creature whose bodies have
\* not passed x = 0 (a body that has passed it stays beyond it here) has
\* maxX = 0 and no entry in creatureMaxDistances or top3MaxDistances, whose
\* entries are all positive.
C30_MaxXIsBestSeen ==
    /\ \A i \in 1..Len(creatures) :
          /\ creatures[i].maxX >= 0
          /\ creatures[i].maxX = MaxOrZero(seenX[creatures[i].id])
          /\ posX[creatures[i].id] <= 0 =>
                /\ creatures[i].maxX = 0
                /\ creatures[i].id \notin MapIds(creatureMaxDistances)
                /\ creatures[i].id \notin MapIds(top3MaxDistances)
    /\ \A i \in 1..Len(creatureMaxDistances) : creatureMaxDistances[i].dist > 0
    /\ \A i \in 1..Len(top3MaxDistances) : top3MaxDistances[i].dist > 0

\* A creature that went to 150 and fell back to 50 keeps maxX = 150, next to
\* a creature still at its spawn position with maxX = 0 and no map entry.
C30_Witness ==
    /\ \E i \in 1..Len(creatures) :
          /\ seenX[creatures[i].id] = {50, 150}
          /\ posX[creatures[i].id] = 50
          /\ creatures[i].maxX = 150
    /\ \E i \in 1..Len(creatures) :
          /\ seenX[creatures[i].id] = {}
          /\ posX[creatures[i].id] = centerX
          /\ now > creatures[i].bornAt
          /\ creatures[i].maxX = 0
    /\ creatureMaxDistances # <<>>

\* C31: whether or not cleanup() has been called, the creature a trickle has
\* removed from the live list has none of its bodies (nor, removed in the
\* same branch, its muscle constraints) left in the physics engine.
C31_CulledLeavesEngine ==
    lastOp = "trickle" => culled \cap DOMAIN posX = {}

\* C32: inside createRandomCreature the repair never adds a muscle; the
\* creature returned has between n and n + floor(n/2) + 1 muscles, and no
\* muscle joins a body to itself.
C32_RepairAddsNothing ==
    /\ \A j \in 1..Len(gen.muscles) :
          /\ gen.muscles[j].kind # "repair"
          /\ gen.muscles[j].a # gen.muscles[j].b
    /\ gen.pc \in {"repair", "done"} =>
          /\ gen.connectionMap = ConnectionMap(gen.count, gen.muscles)
          /\ \A k \in 0..(gen.count - 1) : gen.connectionMap[k] >= 2
    /\ gen.pc = "done" =>
          /\ Len(gen.muscles) >= gen.count
          /\ Len(gen.muscles) <= gen.count + (gen.count \div 2) + 1

\* A 5-body creature returned with the most muscles it can have: the ring
\* and floor(5/2) + 1 cross-links.
C32_Witness ==
    /\ gen.pc = "done"
    /\ gen.count = 5
    /\ gen.crossConnections = 3
    /\ Len(gen.muscles) = 8

====
